---- MODULE Spec2Model ----
(***************************************************************************)
(* A model of goini (src/config.go): the INI document (IniContainer), its  *)
(* accessors and mutators, Merge, the environment expression resolver and  *)
(* the line parser with its include directives.                            *)
(*                                                                         *)
(* Go strings are modelled as sequences of one-character strings, so that  *)
(* strings.ToLower, strings.TrimSpace, strings.Split and the like are      *)
(* computed character by character as the library computes them.           *)
(***************************************************************************)
EXTENDS Naturals, Sequences, FiniteSets, TLC

(***************************************************************************)
(* The state                                                               *)
(***************************************************************************)

VARIABLES
  environ,   \* the process environment read by os.Getenv
  heap,      \* address -> entries map
  docs,      \* the IniContainers made so far: docs[d].values
  last,      \* the last call made: its name, arguments and return value
  nops       \* the number of calls made

docVars == <<environ, heap, docs, last, nops>>

VARIABLES
  tpc,       \* each thread's place in the call it is making
  tcall,     \* each thread's call: its name and arguments
  tvis,      \* ForEach: the sections the range loop has produced
  tsnap,     \* ForEach: the section map as it was when the range loop began
  readers,   \* the threads holding the shared lock
  wmutex,    \* the thread holding or acquiring the exclusive lock, or 0
  fatal,     \* the runtime has thrown "concurrent map iteration and map write"
  ncalls     \* the number of calls begun

threadVars == <<tpc, tcall, tvis, tsnap, readers, wmutex, fatal, ncalls>>

VARIABLES
  fs,        \* the file system LoadFromFile reads
  loaded,    \* the path LoadFromFile was called with (<<>>: not called yet)
  result,    \* what LoadFromFile returned
  saved      \* the document SaveFile has written

parseVars == <<fs, loaded, result, saved>>

vars == <<docVars, threadVars, parseVars>>

(***************************************************************************)
(* Strings                                                                 *)
(***************************************************************************)

UpperSeq == <<"A","B","C","D","E","F","G","H","I","J","K","L","M",
              "N","O","P","Q","R","S","T","U","V","W","X","Y","Z">>

LowerSeq == <<"a","b","c","d","e","f","g","h","i","j","k","l","m",
              "n","o","p","q","r","s","t","u","v","w","x","y","z">>

SetMin(S) == CHOOSE m \in S : \A n \in S : m <= n

SetMax(S) == CHOOSE m \in S : \A n \in S : n <= m

\* unicode.ToLower on one character
LowerChar(c) ==
  IF \E i \in 1..Len(UpperSeq) : UpperSeq[i] = c
  THEN LowerSeq[CHOOSE i \in 1..Len(UpperSeq) : UpperSeq[i] = c]
  ELSE c

\* strings.ToLower
ToLower(s) == [i \in 1..Len(s) |-> LowerChar(s[i])]

\* the white space strings.TrimSpace, bytes.TrimSpace and strings.Fields cut
IsSpace(c) == c \in {" ", "\t", "\r"}

\* strings.Trim(s, cutset): cuts every leading and trailing character of cutset
Trim(s, cutset) ==
  LET keep == {i \in 1..Len(s) : s[i] \notin cutset}
  IN  IF keep = {} THEN <<>> ELSE SubSeq(s, SetMin(keep), SetMax(keep))

\* strings.TrimSpace
TrimSpace(s) == Trim(s, {" ", "\t", "\r"})

\* strings.HasPrefix
HasPrefix(s, p) == Len(s) >= Len(p) /\ SubSeq(s, 1, Len(p)) = p

\* strings.HasSuffix
HasSuffix(s, p) == Len(s) >= Len(p) /\ SubSeq(s, Len(s) - Len(p) + 1, Len(s)) = p

\* the positions at which sep occurs in s
Occurs(s, sep) == {i \in 1..Len(s) : HasPrefix(SubSeq(s, i, Len(s)), sep)}

\* strings.Contains
Contains(s, sep) == Occurs(s, sep) # {}

\* strings.SplitN(s, sep, 2): cut at the first occurrence of sep only
SplitN2(s, sep) ==
  IF ~Contains(s, sep) THEN <<s>>
  ELSE LET i == SetMin(Occurs(s, sep))
       IN  <<SubSeq(s, 1, i - 1), SubSeq(s, i + Len(sep), Len(s))>>

RECURSIVE Split(_, _)
\* strings.Split(s, sep): cut at every occurrence of sep
Split(s, sep) ==
  IF ~Contains(s, sep) THEN <<s>>
  ELSE LET i == SetMin(Occurs(s, sep))
       IN  <<SubSeq(s, 1, i - 1)>> \o Split(SubSeq(s, i + Len(sep), Len(s)), sep)

RECURSIVE Fields(_)
\* strings.Fields(s): the maximal runs of characters that are not white space
Fields(s) ==
  LET t == TrimSpace(s)
  IN  IF t = <<>> THEN <<>>
      ELSE LET sp == {i \in 1..Len(t) : IsSpace(t[i])}
           IN  IF sp = {} THEN <<t>>
               ELSE <<SubSeq(t, 1, SetMin(sp) - 1)>>
                      \o Fields(SubSeq(t, SetMin(sp), Len(t)))

(***************************************************************************)
(* The environment expression resolver                                     *)
(***************************************************************************)

DefaultSection == <<"d","e","f","a","u","l","t">>

\* os.Getenv under the environment env (a function from names to values)
Getenv(env, name) == IF name \in DOMAIN env THEN env[name] ELSE <<>>

isValueEnv(value) ==
  LET v == Trim(value, {"\""})
  IN  HasPrefix(v, <<"$","{">>) /\ HasSuffix(v, <<"}">>)

\* ParseValueEnv taking the variable's value even when it is empty
ParseValueEnvNoDefault(env, value) ==
  IF isValueEnv(value)
  THEN LET v     == Trim(value, {"\""})
           inner == SubSeq(v, 3, Len(v) - 1)
       IN  IF ~Contains(inner, <<"|","|">>)
           THEN <<inner, Getenv(env, inner)>>
           ELSE <<SplitN2(inner, <<"|","|">>)[1],
                  Getenv(env, SplitN2(inner, <<"|","|">>)[1])>>
  ELSE <<<<>>, value>>

\* ParseValueEnv: the pair <<envKey, realValue>>
ParseValueEnv(env, value) ==
  IF isValueEnv(value)
  THEN LET v     == Trim(value, {"\""})
           inner == SubSeq(v, 3, Len(v) - 1)
       IN  IF ~Contains(inner, <<"|","|">>)
           THEN <<inner, Getenv(env, inner)>>
           ELSE LET values == SplitN2(inner, <<"|","|">>)
                    real   == Getenv(env, values[1])
                IN  <<values[1], IF real = <<>> THEN values[2] ELSE real>>
  ELSE <<<<>>, value>>

(***************************************************************************)
(* The document.  A Go map is a reference: heap maps an address to an      *)
(* entries map (key -> entry), and a document's values maps a section name *)
(* to the address of its entries map, so that two documents can hold the   *)
(* same entries map, as they do after Merge.                               *)
(***************************************************************************)


EmptyMap == [k \in {} |-> <<>>]

\* m[key] = e in a Go map
MapPut(m, key, e) == [k \in DOMAIN m \cup {key} |-> IF k = key THEN e ELSE m[k]]

\* delete(m, key)
MapDelete(m, key) == [k \in DOMAIN m \ {key} |-> m[k]]

\* make(map[string]*entry): the address of a new entries map of heap h
NewAddr(h) == Len(h) + 1

NewEntry(section, key, value, env, comment) ==
  [section |-> section, key |-> key, value |-> value, env |-> env, comment |-> comment]

\* an empty section argument means the default section
SectionOrDefault(section) ==
  LET s == TrimSpace(section) IN IF s = <<>> THEN DefaultSection ELSE s

\* what a document holds: section -> key -> entry, read through the heap
Content(h, c) == [s \in DOMAIN c.values |-> h[c.values[s]]]

\* the record of a call: d and d2 are document numbers (0: nil, or no document)
Call(op, d, d2, section, key, value, ret) ==
  [op |-> op, d |-> d, d2 |-> d2, section |-> section, key |-> key,
   value |-> value, ret |-> ret]

NoCall == Call("none", 0, 0, <<>>, <<>>, <<>>, <<>>)

\* NewConfig(): a document with an empty section map
NewConfig == [values |-> EmptyMap]

NewConfigOp ==
  /\ docs' = Append(docs, NewConfig)
  /\ last' = Call("NewConfig", Len(docs) + 1, 0, <<>>, <<>>, <<>>, <<>>)
  /\ nops' = nops + 1
  /\ UNCHANGED <<environ, heap>>

\* c.AddEntry(section, key, value) on document d
AddEntryOp(d, section, key, value) ==
  LET s    == SectionOrDefault(section)
      k    == TrimSpace(key)
      v    == TrimSpace(value)
      has  == s \in DOMAIN docs[d].values
      addr == IF has THEN docs[d].values[s] ELSE NewAddr(heap)
      h1   == IF has THEN heap ELSE Append(heap, EmptyMap)
      ev   == NewEntry(s, k, v, ParseValueEnv(environ, v)[1], <<>>)
  IN  /\ heap' = [h1 EXCEPT ![addr] = MapPut(@, k, ev)]
      /\ docs' = [docs EXCEPT ![d].values = MapPut(@, s, addr)]
      /\ last' = Call("AddEntry", d, 0, section, key, value, <<>>)
      /\ nops' = nops + 1
      /\ UNCHANGED environ

\* c.DeleteKey(section, key) on document d
DeleteKeyOp(d, section, key) ==
  LET s     == SectionOrDefault(section)
      k     == TrimSpace(key)
      found == s \in DOMAIN docs[d].values /\ k \in DOMAIN heap[docs[d].values[s]]
  IN  /\ heap' = IF found
                 THEN [heap EXCEPT ![docs[d].values[s]] = MapDelete(@, k)]
                 ELSE heap
      /\ last' = Call("DeleteKey", d, 0, section, key, <<>>, found)
      /\ nops' = nops + 1
      /\ UNCHANGED <<environ, docs>>

\* c.DeleteSection(section) on document d
DeleteSectionOp(d, section) ==
  LET s     == SectionOrDefault(section)
      found == s \in DOMAIN docs[d].values
  IN  /\ docs' = IF found THEN [docs EXCEPT ![d].values = MapDelete(@, s)] ELSE docs
      /\ last' = Call("DeleteSection", d, 0, section, <<>>, <<>>, found)
      /\ nops' = nops + 1
      /\ UNCHANGED <<environ, heap>>

\* c.AddSection(section) on document d
AddSectionOp(d, section) ==
  LET s   == SectionOrDefault(section)
      has == s \in DOMAIN docs[d].values
  IN  /\ heap' = IF has THEN heap ELSE Append(heap, EmptyMap)
      /\ docs' = IF has THEN docs
                 ELSE [docs EXCEPT ![d].values = MapPut(@, s, NewAddr(heap))]
      /\ last' = Call("AddSection", d, 0, section, <<>>, <<>>, <<>>)
      /\ nops' = nops + 1
      /\ UNCHANGED environ

\* the section and key a compound key addresses, in getData and in Set
SectionKey(key) ==
  LET sectionKey == Split(ToLower(key), <<":",":">>)
  IN  IF Len(sectionKey) >= 2
      THEN [section |-> sectionKey[1], k |-> sectionKey[2]]
      ELSE [section |-> DefaultSection, k |-> sectionKey[1]]

\* c.getData(key) on the document c of heap h
getData(env, h, c, key) ==
  IF Len(key) = 0 THEN <<>>
  ELSE LET sk == SectionKey(key)
       IN  IF sk.section \in DOMAIN c.values /\ sk.k \in DOMAIN h[c.values[sk.section]]
           THEN LET vv == h[c.values[sk.section]][sk.k]
                IN  IF isValueEnv(vv.value)
                    THEN ParseValueEnv(env, vv.value)[2]
                    ELSE vv.value
           ELSE <<>>

\* c.GetString(key) on document d
GetStringOp(d, key) ==
  /\ last' = Call("GetString", d, 0, <<>>, key, <<>>,
                  getData(environ, heap, docs[d], key))
  /\ nops' = nops + 1
  /\ UNCHANGED <<environ, heap, docs>>

\* c.GetSection(section) on document d: section is looked up as given
GetSectionOp(d, section) ==
  /\ last' = Call("GetSection", d, 0, section, <<>>, <<>>,
                  IF section \in DOMAIN docs[d].values
                  THEN [k \in DOMAIN heap[docs[d].values[section]] |->
                          heap[docs[d].values[section]][k].value]
                  ELSE "not exist section")
  /\ nops' = nops + 1
  /\ UNCHANGED <<environ, heap, docs>>

\* c.Set(key, value) on document d
SetOp(d, key, value) ==
  IF Len(key) = 0
  THEN /\ last' = Call("Set", d, 0, <<>>, key, value, "key is empty")
       /\ nops' = nops + 1
       /\ UNCHANGED <<environ, heap, docs>>
  ELSE LET sk   == SectionKey(key)
           has  == sk.section \in DOMAIN docs[d].values
           addr == IF has THEN docs[d].values[sk.section] ELSE NewAddr(heap)
           h1   == IF has THEN heap ELSE Append(heap, EmptyMap)
           v    == NewEntry(sk.section, sk.k, value, <<>>, <<>>)
       IN  /\ heap' = [h1 EXCEPT ![addr] = MapPut(@, sk.k, v)]
           /\ docs' = [docs EXCEPT ![d].values = MapPut(@, sk.section, addr)]
           /\ last' = Call("Set", d, 0, <<>>, key, value, "nil")
           /\ nops' = nops + 1
           /\ UNCHANGED environ

\* Overlay with the roles swapped: an entry already in dst is kept
OverlayKeepsFirst(dst, src) ==
  [k \in DOMAIN dst \cup DOMAIN src |-> IF k \in DOMAIN dst THEN dst[k] ELSE src[k]]

\* the loop of Merge and of the include branches of parseData:
\* for kk, vv := range src { dst[kk] = vv }
Overlay(dst, src) ==
  [k \in DOMAIN dst \cup DOMAIN src |-> IF k \in DOMAIN src THEN src[k] ELSE dst[k]]

\* Merge(config1, config2) of documents a and b (0: nil).  cfg.values[k] = v
\* stores the address of config1's entries map, and cfg.values[k][kk] = vv then
\* writes into that map.  An entries map is only ever held under one section
\* name, so the order in which range visits config2's sections is not seen.
MergeOp(a, b) ==
  IF a = 0 \/ b = 0
  THEN /\ last' = Call("Merge", a, b, <<>>, <<>>, <<>>, IF b = 0 THEN a ELSE b)
       /\ nops' = nops + 1
       /\ UNCHANGED <<environ, heap, docs>>
  ELSE LET v1     == docs[a].values
           v2     == docs[b].values
           both   == DOMAIN v1 \cap DOMAIN v2
           values == [k \in DOMAIN v1 \cup DOMAIN v2 |->
                        IF k \in DOMAIN v1 THEN v1[k] ELSE v2[k]]
       IN  /\ heap' = [x \in DOMAIN heap |->
                         IF \E k \in both : v1[k] = x
                         THEN Overlay(heap[x],
                                      heap[v2[CHOOSE k \in both : v1[k] = x]])
                         ELSE heap[x]]
           /\ docs' = Append(docs, [values |-> values])
           /\ last' = Call("Merge", a, b, <<>>, <<>>, <<>>, Len(docs) + 1)
           /\ nops' = nops + 1
           /\ UNCHANGED environ

(***************************************************************************)
(* Several threads calling one document: specification SpecThreads.        *)
(* The embedded sync.RWMutex: wmutex is the thread that has called Lock    *)
(* and not yet Unlock (0: none); from that moment RLock blocks, and Lock   *)
(* returns once the readers that were in have left.                        *)
(***************************************************************************)


NumThreads == 2

MaxCalls == 3

Threads == 1..NumThreads

ThreadSection == <<"s">>

ThreadKey == <<"s",":",":","k">>

ThreadValues == {<<"1">>, <<"2">>}

Accessors == {"GetString", "GetSection"}

Mutators == {"Set", "AddEntry", "DeleteKey", "DeleteSection", "AddSection"}

ThreadCalls ==
  {Call(op, 1, 0, ThreadSection, <<"k">>, v, <<>>) :
     op \in {"AddEntry", "DeleteKey", "DeleteSection", "AddSection", "GetSection"},
     v \in {<<"1">>}}
  \cup {Call("Set", 1, 0, <<>>, ThreadKey, v, <<>>) : v \in ThreadValues}
  \cup {Call("GetString", 1, 0, <<>>, ThreadKey, <<>>, <<>>),
        Call("ForEach", 1, 0, <<>>, <<>>, <<>>, <<>>)}

InitThreads ==
  /\ tpc = [t \in Threads |-> "idle"]
  /\ tcall = [t \in Threads |-> NoCall]
  /\ tvis = [t \in Threads |-> {}]
  /\ tsnap = [t \in Threads |-> EmptyMap]
  /\ readers = {}
  /\ wmutex = 0
  /\ fatal = FALSE
  /\ ncalls = 0

\* a thread begins a call: the accessors go to RLock, the mutators to Lock, and
\* ForEach, which takes no lock, straight to its range loop
CallStart(t, call) ==
  /\ ~fatal
  /\ tpc[t] = "idle"
  /\ ncalls < MaxCalls
  /\ ncalls' = ncalls + 1
  /\ tcall' = [tcall EXCEPT ![t] = call]
  /\ tpc' = [tpc EXCEPT ![t] = IF call.op \in Accessors THEN "rlock"
                               ELSE IF call.op = "ForEach" THEN "range"
                               ELSE "lock"]
  /\ tvis' = [tvis EXCEPT ![t] = {}]
  /\ tsnap' = [tsnap EXCEPT ![t] = docs[1].values]
  /\ UNCHANGED <<docVars, readers, wmutex, fatal>>

\* c.RLock()
RLock(t) ==
  /\ ~fatal
  /\ tpc[t] = "rlock"
  /\ wmutex = 0
  /\ readers' = readers \cup {t}
  /\ tpc' = [tpc EXCEPT ![t] = "read"]
  /\ UNCHANGED <<docVars, tcall, tvis, tsnap, wmutex, fatal, ncalls>>

\* the body of getData or GetSection
ReadStep(t) ==
  /\ ~fatal
  /\ tpc[t] = "read"
  /\ IF tcall[t].op = "GetString"
     THEN GetStringOp(1, tcall[t].key)
     ELSE GetSectionOp(1, tcall[t].section)
  /\ tpc' = [tpc EXCEPT ![t] = "runlock"]
  /\ UNCHANGED <<tcall, tvis, tsnap, readers, wmutex, fatal, ncalls>>

\* defer c.RUnlock()
RUnlock(t) ==
  /\ ~fatal
  /\ tpc[t] = "runlock"
  /\ readers' = readers \ {t}
  /\ tpc' = [tpc EXCEPT ![t] = "idle"]
  /\ UNCHANGED <<docVars, tcall, tvis, tsnap, wmutex, fatal, ncalls>>

\* c.Lock(): exclude the other writers and keep new readers out
LockBegin(t) ==
  /\ ~fatal
  /\ tpc[t] = "lock"
  /\ wmutex = 0
  /\ wmutex' = t
  /\ tpc' = [tpc EXCEPT ![t] = "lockwait"]
  /\ UNCHANGED <<docVars, tcall, tvis, tsnap, readers, fatal, ncalls>>

\* c.Lock() returns when the readers have left
LockEnter(t) ==
  /\ ~fatal
  /\ tpc[t] = "lockwait"
  /\ readers = {}
  /\ tpc' = [tpc EXCEPT ![t] = "write"]
  /\ UNCHANGED <<docVars, tcall, tvis, tsnap, readers, wmutex, fatal, ncalls>>

\* the body of a mutator, under the exclusive lock
WriteStep(t) ==
  /\ ~fatal
  /\ tpc[t] = "write"
  /\ CASE tcall[t].op = "Set" -> SetOp(1, tcall[t].key, tcall[t].value)
       [] tcall[t].op = "AddEntry" ->
            AddEntryOp(1, tcall[t].section, tcall[t].key, tcall[t].value)
       [] tcall[t].op = "DeleteKey" -> DeleteKeyOp(1, tcall[t].section, tcall[t].key)
       [] tcall[t].op = "DeleteSection" -> DeleteSectionOp(1, tcall[t].section)
       [] tcall[t].op = "AddSection" -> AddSectionOp(1, tcall[t].section)
  /\ tpc' = [tpc EXCEPT ![t] = "unlock"]
  /\ UNCHANGED <<tcall, tvis, tsnap, readers, wmutex, fatal, ncalls>>

\* defer c.Unlock()
Unlock(t) ==
  /\ ~fatal
  /\ tpc[t] = "unlock"
  /\ wmutex' = 0
  /\ tpc' = [tpc EXCEPT ![t] = "idle"]
  /\ UNCHANGED <<docVars, tcall, tvis, tsnap, readers, fatal, ncalls>>

\* ForEachStep going on after the visitor has answered false
ForEachStepOn(t, more) ==
  /\ ~fatal
  /\ tpc[t] = "range"
  /\ LET left == DOMAIN docs[1].values \ tvis[t]
     IN  \/ /\ left = {} \/ docs[1].values # tsnap[t]
            /\ tpc' = [tpc EXCEPT ![t] = "idle"]
            /\ last' = Call("ForEach", 1, 0, <<>>, <<>>, <<>>, "end")
            /\ UNCHANGED tvis
         \/ \E s \in left :
              /\ tvis' = [tvis EXCEPT ![t] = @ \cup {s}]
              /\ tpc' = [tpc EXCEPT ![t] = "range"]
              /\ last' = Call("ForEach", 1, 0, s, <<>>, <<>>, more)
  /\ UNCHANGED <<environ, heap, docs, nops, tcall, tsnap, readers, wmutex, fatal, ncalls>>

\* ForEach: one turn of  for s, entries := range c.values { if !fn(..) {return} }
\* with the visitor answering more.  The loop takes no lock.  It ends when no
\* section is left; when the map was written since the loop began, an entry may
\* be produced or skipped, so the loop may also end early.
ForEachStep(t, more) ==
  /\ ~fatal
  /\ tpc[t] = "range"
  /\ LET left == DOMAIN docs[1].values \ tvis[t]
     IN  \/ /\ left = {} \/ docs[1].values # tsnap[t]
            /\ tpc' = [tpc EXCEPT ![t] = "idle"]
            /\ last' = Call("ForEach", 1, 0, <<>>, <<>>, <<>>, "end")
            /\ UNCHANGED tvis
         \/ \E s \in left :
              /\ tvis' = [tvis EXCEPT ![t] = @ \cup {s}]
              /\ tpc' = [tpc EXCEPT ![t] = IF more THEN "range" ELSE "idle"]
              /\ last' = Call("ForEach", 1, 0, s, <<>>, <<>>, more)
  /\ UNCHANGED <<environ, heap, docs, nops, tcall, tsnap, readers, wmutex, fatal, ncalls>>

\* the range loop of ForEach runs while a mutator is writing the map: the Go
\* runtime may throw "concurrent map iteration and map write" and end the process
ForEachFatal(t) ==
  /\ ~fatal
  /\ tpc[t] = "range"
  /\ \E w \in Threads \ {t} : tpc[w] = "write"
  /\ fatal' = TRUE
  /\ UNCHANGED <<docVars, tpc, tcall, tvis, tsnap, readers, wmutex, ncalls>>

(***************************************************************************)
(* The file system the parser reads: a function from a path to a node,     *)
(* [dir, readable, data], data being the file's lines (an empty sequence   *)
(* is a file of no bytes).  Paths are clean: no ".", ".." or "//".         *)
(***************************************************************************)

\* the characters of the model in byte order, for the order of filepath.Walk
Ascii ==
  <<"\t", "\r", " ", "\"", "#", "$", ".", "/",
    "0", "1", "2", "3", "4", "5", "6", "7", "8", "9", ":", ";", "=">>
  \o UpperSeq \o <<"[", "]", "_">> \o LowerSeq \o <<"{", "|", "}">>

Code(c) == CHOOSE i \in 1..Len(Ascii) : Ascii[i] = c

RECURSIVE StrLess(_, _)
\* a < b on Go strings
StrLess(a, b) ==
  IF a = <<>> THEN b # <<>>
  ELSE IF b = <<>> THEN FALSE
  ELSE IF a[1] # b[1] THEN Code(a[1]) < Code(b[1])
  ELSE StrLess(Tail(a), Tail(b))

\* filepath.IsAbs
IsAbs(path) == HasPrefix(path, <<"/">>)

\* filepath.Join(dir, path) of clean arguments: a trailing separator is cut
Join(dir, path) ==
  LET p == IF HasSuffix(path, <<"/">>) THEN SubSeq(path, 1, Len(path) - 1) ELSE path
  IN  IF dir = <<"/">> THEN dir \o p ELSE dir \o <<"/">> \o p

\* filepath.Dir
Dir(path) ==
  LET slashes == {i \in 1..Len(path) : path[i] = "/"}
  IN  IF slashes = {} THEN <<".">>
      ELSE IF SetMax(slashes) = 1 THEN <<"/">>
      ELSE SubSeq(path, 1, SetMax(slashes) - 1)

\* os.Stat(path) succeeds
Exists(fsys, path) == path \in DOMAIN fsys

\* os.Stat(path).IsDir()
IsDir(fsys, path) == fsys[path].dir

\* ioutil.ReadFile(path) succeeds
Readable(fsys, path) == Exists(fsys, path) /\ ~fsys[path].dir /\ fsys[path].readable

RECURSIVE WalkKids(_, _)
RECURSIVE Walk(_, _)
\* the files filepath.Walk(root, fn) hands to fn, in its order: the entries of a
\* directory by name, a directory's own entries right after it
Walk(fsys, root) ==
  WalkKids(fsys, {p \in DOMAIN fsys : p # root /\ Dir(p) = root})

WalkKids(fsys, kids) ==
  IF kids = {} THEN <<>>
  ELSE LET first == CHOOSE p \in kids : \A q \in kids \ {p} : StrLess(p, q)
       IN  (IF fsys[first].dir THEN Walk(fsys, first) ELSE <<first>>)
             \o WalkKids(fsys, kids \ {first})

(***************************************************************************)
(* The parser: parseFile and parseData.  A result is [err, fatal, cfg]:    *)
(* err is the error returned (its kind, with the line of a syntax error    *)
(* and the file it was read from), cfg the document returned with a nil    *)
(* error.  fatal is the end of the process: an include chain that comes    *)
(* back to a call it is still inside (the same file with the same section) *)
(* repeats itself for ever, until the goroutine's stack is exhausted.      *)
(***************************************************************************)

NoErr == [kind |-> "none", line |-> <<>>, path |-> <<>>]

Err(kind, line, path) == [kind |-> kind, line |-> line, path |-> path]

NilCfg == [values |-> EmptyMap, sectionComment |-> EmptyMap, endComment |-> <<>>]

Failed(err) == [err |-> err, fatal |-> FALSE, cfg |-> NilCfg]

Fatal == [err |-> NoErr, fatal |-> TRUE, cfg |-> NilCfg]

\* MergeInclude keeping the entries cfg has already
MergeIncludeKeepsParent(values, ini) ==
  [k \in DOMAIN values \cup DOMAIN ini |->
     IF k \notin DOMAIN values THEN ini[k]
     ELSE IF k \in DOMAIN ini THEN Overlay(ini[k], values[k])
     ELSE values[k]]

\* the merge of an included document's sections into cfg.values:
\* a section cfg does not have is taken as it is, the entries of one it has
\* are written over cfg's
MergeInclude(values, ini) ==
  [k \in DOMAIN values \cup DOMAIN ini |->
     IF k \notin DOMAIN values THEN ini[k]
     ELSE IF k \in DOMAIN ini THEN Overlay(values[k], ini[k])
     ELSE values[k]]

\* AbsorbInclude letting the child's error through to the parent
AbsorbIncludeOrFail(st, child) ==
  IF child.err = NoErr
  THEN [st EXCEPT !.values = MergeInclude(@, child.cfg.values)]
  ELSE [st EXCEPT !.err = child.err]

\* the parser's state after an include has returned child: the document of a
\* child that returned an error is dropped, and the error with it
AbsorbInclude(st, child) ==
  IF child.err = NoErr
  THEN [st EXCEPT !.values = MergeInclude(@, child.cfg.values)]
  ELSE st

\* IncludeMissing returning the error of os.Stat
IncludeMissingFails(st, line, path) == [st EXCEPT !.err = Err("stat", line, path)]

\* the parser's state after os.Stat has failed on the path of an include
\* directive: the line is passed over
IncludeMissing(st, line, path) == st

\* the line is, to parseData, an include directive
IsInclude(line) ==
  LET kv  == SplitN2(line, <<"=">>)
      key == ToLower(TrimSpace(kv[1]))
  IN  /\ Len(kv) = 1
      /\ HasPrefix(key, <<"i","n","c","l","u","d","e"," ">>)
      /\ Fields(key)[1] = <<"i","n","c","l","u","d","e">>
      /\ Len(Fields(key)) = 2

\* the path an include directive is resolved to
IncludePath(line, dir) ==
  LET key       == ToLower(TrimSpace(SplitN2(line, <<"=">>)[1]))
      otherFile == Trim(Fields(key)[2], {"\""})
  IN  IF IsAbs(otherFile) THEN otherFile ELSE Join(dir, otherFile)

\* info.Name() ends in .ini or .conf
IniOrConf(path) ==
  HasSuffix(path, <<".","i","n","i">>) \/ HasSuffix(path, <<".","c","o","n","f">>)

\* val of a key = val line: white space cut, and, when it begins with a double
\* quote, the double quotes at its two ends cut
ValueOf(raw) ==
  LET val == TrimSpace(raw)
  IN  IF HasPrefix(val, <<"\"">>) THEN Trim(val, {"\""}) ELSE val

RECURSIVE parseFile(_, _, _, _)

RECURSIVE IncludeWalk(_, _, _, _)
\* the callback of filepath.Walk over the files paths, from the state st
IncludeWalk(fsys, paths, st, chain) ==
  IF paths = <<>> \/ st.fatal THEN st
  ELSE IF ~IniOrConf(paths[1]) THEN IncludeWalk(fsys, Tail(paths), st, chain)
  ELSE LET ini == parseFile(fsys, paths[1], st.section, chain)
       IN  IF ini.fatal THEN [st EXCEPT !.fatal = TRUE]
           ELSE IncludeWalk(fsys, Tail(paths), AbsorbInclude(st, ini), chain)

\* one turn of parseData's loop, on the line raw of the file path
ParseLine(fsys, raw, st, dir, path, chain) ==
  LET line == TrimSpace(raw)
      kv   == SplitN2(line, <<"=">>)
      key  == ToLower(TrimSpace(kv[1]))
      bad  == [st EXCEPT !.err = Err("syntax", line, path)]
  IN  IF line = <<>> THEN st
      ELSE IF HasPrefix(line, <<"#">>) \/ HasPrefix(line, <<";">>)
      THEN [st EXCEPT !.comment = IF Len(@) > 0 THEN @ \o <<"\n">> \o line ELSE line]
      ELSE IF HasPrefix(line, <<"[">>) /\ HasSuffix(line, <<"]">>)
      THEN LET section == ToLower(SubSeq(line, 2, Len(line) - 1))
           IN  [st EXCEPT !.section = section,
                          !.sectionComment = MapPut(@, section, st.comment),
                          !.comment = <<>>]
      ELSE IF IsInclude(line)
      THEN LET otherFile == IncludePath(line, dir)
           IN  IF ~Exists(fsys, otherFile) THEN IncludeMissing(st, line, path)
               ELSE IF IsDir(fsys, otherFile)
               THEN LET w == IncludeWalk(fsys, Walk(fsys, dir), st, chain)
                    IN  IF w.fatal THEN w
                        ELSE [w EXCEPT !.err = Err("syntax", line, path)]
               ELSE LET ini == parseFile(fsys, otherFile, st.section, chain)
                    IN  IF ini.fatal THEN [st EXCEPT !.fatal = TRUE]
                        ELSE AbsorbInclude(st, ini)
      ELSE IF Len(kv) # 2 THEN bad
      ELSE LET value == ValueOf(kv[2])
               ev    == NewEntry(st.section, key, value,
                                 IF isValueEnv(value)
                                 THEN ParseValueEnv(EmptyMap, value)[1] ELSE <<>>,
                                 st.comment)
           IN  [st EXCEPT !.comment = <<>>,
                          !.values = MapPut(@, st.section,
                                       MapPut(IF st.section \in DOMAIN @
                                              THEN @[st.section] ELSE EmptyMap,
                                              key, ev))]

RECURSIVE parseLines(_, _, _, _, _, _, _)
\* parseData's loop from line i on
parseLines(fsys, lines, i, st, dir, path, chain) ==
  IF st.fatal \/ st.err # NoErr \/ i > Len(lines) THEN st
  ELSE parseLines(fsys, lines, i + 1,
                  ParseLine(fsys, lines[i], st, dir, path, chain), dir, path, chain)

\* the byte order mark at the head of the data is skipped
StripBOM(data) ==
  IF data # <<>> /\ HasPrefix(data[1], <<"BOM">>)
  THEN <<Tail(data[1])>> \o Tail(data)
  ELSE data

\* parseData leaving the comment lines pending at the end of input out
parseDataNoEndComment(fsys, data, section, dir, path, chain) ==
  IF data = <<>> THEN Failed(Err("data is empty", <<>>, path))
  ELSE LET st0 == [section |-> section, values |-> EmptyMap,
                   sectionComment |-> EmptyMap, comment |-> <<>>,
                   err |-> NoErr, fatal |-> FALSE]
           st  == parseLines(fsys, StripBOM(data), 1, st0, dir, path, chain)
       IN  IF st.fatal THEN Fatal
           ELSE IF st.err # NoErr THEN Failed(st.err)
           ELSE [err |-> NoErr, fatal |-> FALSE,
                 cfg |-> [values |-> st.values,
                          sectionComment |-> st.sectionComment,
                          endComment |-> <<>>]]

\* parseData(data, section, dir), data being the lines of the file path
parseData(fsys, data, section, dir, path, chain) ==
  IF data = <<>> THEN Failed(Err("data is empty", <<>>, path))
  ELSE LET st0 == [section |-> section, values |-> EmptyMap,
                   sectionComment |-> EmptyMap, comment |-> <<>>,
                   err |-> NoErr, fatal |-> FALSE]
           st  == parseLines(fsys, StripBOM(data), 1, st0, dir, path, chain)
       IN  IF st.fatal THEN Fatal
           ELSE IF st.err # NoErr THEN Failed(st.err)
           ELSE [err |-> NoErr, fatal |-> FALSE,
                 cfg |-> [values |-> st.values,
                          sectionComment |-> st.sectionComment,
                          endComment |-> st.comment]]

\* parseFile starting every file in the default section
parseFileInDefault(fsys, path, section, chain) ==
  IF <<path, section>> \in chain THEN Fatal
  ELSE IF ~Readable(fsys, path) THEN Failed(Err("read", <<>>, path))
  ELSE parseData(fsys, fsys[path].data, DefaultSection, Dir(path), path,
                 chain \cup {<<path, section>>})

\* parseFile(path, section); chain holds the calls of parseFile this one is inside
parseFile(fsys, path, section, chain) ==
  IF <<path, section>> \in chain THEN Fatal
  ELSE IF ~Readable(fsys, path) THEN Failed(Err("read", <<>>, path))
  ELSE parseData(fsys, fsys[path].data, section, Dir(path), path,
                 chain \cup {<<path, section>>})

\* LoadFromFile(path)
LoadFromFile(fsys, path) == parseFile(fsys, path, DefaultSection, {})

(***************************************************************************)
(* The file systems LoadFromFile is called on: specification SpecParse.    *)
(*   /d/main          the file loaded, of at most MaxLines lines           *)
(*   /d/inc.conf      a file it may include, in one of IncVariants         *)
(*   /d/deep.conf     a file with a syntax error on its second line        *)
(*   /d/Sub/A.conf    a file in a directory with an upper-case name        *)
(*   /d/sub/x.ini     a file in a sub-directory                            *)
(***************************************************************************)

MaxLines == 2

pD == <<"/","d">>

pMain == pD \o <<"/","m","a","i","n">>

pInc == pD \o <<"/","i","n","c",".","c","o","n","f">>

pDeep == pD \o <<"/","d","e","e","p",".","c","o","n","f">>

pNope == pD \o <<"/","n","o","p","e",".","c","o","n","f">>

pSubU == pD \o <<"/","S","u","b">>

pA == pSubU \o <<"/","A",".","c","o","n","f">>

pSub == pD \o <<"/","s","u","b">>

pX == pSub \o <<"/","x",".","i","n","i">>

Include == <<"i","n","c","l","u","d","e">>

LineKv == <<"k","=","1">>

LineKvUpper == <<"K"," ","="," ","2">>

LineSection == <<"[","W","e","b","]">>

LineComment == <<"#"," ","c">>

LineBlank == <<>>

LineBad == <<"b","a","d">>

LineIncFile == Include \o <<" ","i","n","c",".","c","o","n","f">>

LineIncUpper == <<"I","n","c","l","u","d","e">> \o <<" ","i","n","c",".","c","o","n","f">>

LineIncNope == Include \o <<" ","n","o","p","e",".","c","o","n","f">>

LineIncDir == Include \o <<" ","s","u","b">>

LineIncCase == Include \o <<" ","S","u","b","/","A",".","c","o","n","f">>

LineLib ==
  {LineKv, LineKvUpper, LineSection, LineComment, LineBlank, LineBad,
   LineIncFile, LineIncUpper, LineIncNope, LineIncDir, LineIncCase}

\* the sequences of at most n lines of LineLib
LinesUpTo(n) == UNION {[1..m -> LineLib] : m \in 0..n}

DirNode == [dir |-> TRUE, readable |-> TRUE, data |-> <<>>]

FileNode(lines) == [dir |-> FALSE, readable |-> TRUE, data |-> lines]

NoReadNode == [dir |-> FALSE, readable |-> FALSE, data |-> <<>>]

IncVariants ==
  {FileNode(<<<<"k","=","9">>, LineSection, <<"p","=","2">>>>),
   FileNode(<<<<"j","=","5">>, <<"o","o","p","s">>>>),
   FileNode(<<>>),
   NoReadNode,
   FileNode(<<<<"j","=","5">>, Include \o <<" ","d","e","e","p",".","c","o","n","f">>>>),
   FileNode(<<LineIncDir>>)}

FileSystem(main, inc) ==
  (pD :> DirNode) @@ (pMain :> FileNode(main)) @@ (pInc :> inc)
    @@ (pDeep :> FileNode(<<<<"z","=","3">>, <<"o","o","p","s">>>>))
    @@ (pSubU :> DirNode) @@ (pA :> FileNode(<<<<"a","=","1">>>>))
    @@ (pSub :> DirNode) @@ (pX :> FileNode(<<<<"x","=","7">>>>))

FileSystems == {FileSystem(main, inc) : main \in LinesUpTo(MaxLines), inc \in IncVariants}

TopPaths == {pMain, pInc, pNope}

NotCalled == Failed(Err("not called", <<>>, <<>>))

\* LoadFromFile(path) is called and returns
LoadFromFileOp(path) ==
  /\ loaded = <<>>
  /\ loaded' = path
  /\ result' = LoadFromFile(fs, path)
  /\ UNCHANGED <<fs, saved>>

(***************************************************************************)
(* String and SaveFile.  The order in which range yields the sections and  *)
(* the entries of a map is not fixed: sections is the order of the         *)
(* sections, pairs the order of the <<section, key>> pairs.                *)
(***************************************************************************)

\* the sequences that hold each element of S once
Orders(S) == {f \in [1..Cardinality(S) -> S] : \A i, j \in DOMAIN f : f[i] = f[j] => i = j}

\* the pairs <<section, key>> of a document
PairsOf(cfg) ==
  UNION {{<<s, k>> : k \in DOMAIN cfg.values[s]} : s \in DOMAIN cfg.values}

\* body += vv.comment, vv.key="vv.value" for one entry
EntryText(vv) ==
  (IF vv.comment # <<>> THEN <<"\n">> \o vv.comment \o <<"\n">> ELSE <<>>)
    \o vv.key \o <<"=", "\"">> \o vv.value \o <<"\"">> \o <<"\n">>

RECURSIVE EntriesText(_, _, _)
\* for _, vv := range section, in the order of pairs
EntriesText(cfg, section, pairs) ==
  IF pairs = <<>> THEN <<>>
  ELSE (IF pairs[1][1] = section
        THEN EntryText(cfg.values[section][pairs[1][2]]) ELSE <<>>)
         \o EntriesText(cfg, section, Tail(pairs))

RECURSIVE SectionsText(_, _, _)
\* for k, v := range c.values, in the order of sections
SectionsText(cfg, sections, pairs) ==
  IF sections = <<>> THEN <<>>
  ELSE LET k == sections[1]
       IN  (IF k = DefaultSection THEN <<>>
            ELSE (IF k \in DOMAIN cfg.sectionComment
                  THEN <<"\n">> \o cfg.sectionComment[k] \o <<"\n">>
                         \o <<"[">> \o k \o <<"]">> \o <<"\n">>
                  ELSE <<"\n">> \o <<"[">> \o k \o <<"]">> \o <<"\n">>)
                   \o EntriesText(cfg, k, pairs))
             \o SectionsText(cfg, Tail(sections), pairs)

\* c.String()
String(cfg, sections, pairs) ==
  IF DOMAIN cfg.values = {} THEN <<>>
  ELSE (IF DefaultSection \in DOMAIN cfg.values
        THEN EntriesText(cfg, DefaultSection, pairs) ELSE <<>>)
         \o SectionsText(cfg, sections, pairs)
         \o cfg.endComment

RECURSIVE Lines(_)
\* the lines bufio's ReadLine reads from the bytes body
Lines(body) ==
  IF body = <<>> THEN <<>>
  ELSE LET nl == {i \in 1..Len(body) : body[i] = "\n"}
       IN  IF nl = {} THEN <<body>>
           ELSE <<SubSeq(body, 1, SetMin(nl) - 1)>>
                  \o Lines(SubSeq(body, SetMin(nl) + 1, Len(body)))

\* c.SaveFile(path) on the document LoadFromFile has returned
SaveFileOp(path, sections, pairs) ==
  /\ loaded # <<>>
  /\ result.err = NoErr /\ ~result.fatal
  /\ path \notin DOMAIN fs
  /\ fs' = (path :> FileNode(Lines(String(result.cfg, sections, pairs)))) @@ fs
  /\ saved' = result.cfg
  /\ loaded' = <<>>
  /\ result' = NotCalled

(***************************************************************************)
(* The specifications                                                      *)
(***************************************************************************)

\* bounds of the model
MaxOps == 3

MaxDocs == 3

MaxMergeOps == 5

EnvStates == {[n \in {<<"H">>} |-> <<"h">>]}

NoDocs ==
  /\ environ \in EnvStates
  /\ heap = <<>>
  /\ docs = <<>>
  /\ last = NoCall
  /\ nops = 0

NoParse ==
  /\ fs = EmptyMap
  /\ loaded = <<>>
  /\ result = NotCalled
  /\ saved = NilCfg

\* SpecDoc: the operations called one after another on one document

SectionArgs == {<<>>, <<"S">>, <<"a">>}

KeyArgs == {<<"K">>, <<"k"," ">>, <<"b",":",":","c">>}

ValueArgs == {<<"1">>, <<" ","2">>}

CompoundKeys ==
  {<<"k">>, <<"K">>, <<"s",":",":","k">>, <<"S",":",":","K">>,
   <<"a",":",":","b">>, <<"a",":",":","b",":",":","c">>}

InitDoc ==
  /\ environ \in EnvStates
  /\ heap = <<>>
  /\ docs = <<NewConfig>>
  /\ last = NoCall
  /\ nops = 0
  /\ InitThreads
  /\ NoParse

NextDoc ==
  \/ \E s \in SectionArgs, k \in KeyArgs, v \in ValueArgs :
       nops < MaxOps /\ AddEntryOp(1, s, k, v) /\ UNCHANGED <<threadVars, parseVars>>
  \/ \E s \in SectionArgs :
       nops < MaxOps /\ AddSectionOp(1, s) /\ UNCHANGED <<threadVars, parseVars>>
  \/ \E k \in CompoundKeys, v \in ValueArgs :
       nops < MaxOps /\ SetOp(1, k, v) /\ UNCHANGED <<threadVars, parseVars>>
  \/ \E s \in SectionArgs, k \in KeyArgs :
       nops < MaxOps /\ DeleteKeyOp(1, s, k) /\ UNCHANGED <<threadVars, parseVars>>
  \/ \E s \in SectionArgs :
       nops < MaxOps /\ DeleteSectionOp(1, s) /\ UNCHANGED <<threadVars, parseVars>>
  \/ \E k \in CompoundKeys :
       nops < MaxOps /\ GetStringOp(1, k) /\ UNCHANGED <<threadVars, parseVars>>

SpecDoc == InitDoc /\ [][NextDoc]_vars

\* SpecMerge: documents made, filled and merged

MergeSectionArgs == {<<"s">>, <<"t">>}

MergeKeyArgs == {<<"k","1">>, <<"k","2">>}

MergeValueArgs == {<<"1">>, <<"3">>}

InitMerge == NoDocs /\ InitThreads /\ NoParse

NextMerge ==
  \/ nops < MaxMergeOps /\ Len(docs) < MaxDocs /\ NewConfigOp
       /\ UNCHANGED <<threadVars, parseVars>>
  \/ \E d \in 1..Len(docs), s \in MergeSectionArgs, k \in MergeKeyArgs,
        v \in MergeValueArgs :
       nops < MaxMergeOps /\ AddEntryOp(d, s, k, v) /\ UNCHANGED <<threadVars, parseVars>>
  \/ \E a \in 0..Len(docs), b \in 0..Len(docs) :
       nops < MaxMergeOps /\ Len(docs) < MaxDocs /\ MergeOp(a, b)
         /\ UNCHANGED <<threadVars, parseVars>>

SpecMerge == InitMerge /\ [][NextMerge]_vars

\* SpecThreads: NumThreads threads calling one document

InitThreaded ==
  /\ environ \in EnvStates
  /\ heap = <<>>
  /\ docs = <<NewConfig>>
  /\ last = NoCall
  /\ nops = 0
  /\ InitThreads
  /\ NoParse

NextThreads ==
  \/ \E t \in Threads, call \in ThreadCalls : CallStart(t, call) /\ UNCHANGED parseVars
  \/ \E t \in Threads : RLock(t) /\ UNCHANGED parseVars
  \/ \E t \in Threads : ReadStep(t) /\ UNCHANGED parseVars
  \/ \E t \in Threads : RUnlock(t) /\ UNCHANGED parseVars
  \/ \E t \in Threads : LockBegin(t) /\ UNCHANGED parseVars
  \/ \E t \in Threads : LockEnter(t) /\ UNCHANGED parseVars
  \/ \E t \in Threads : WriteStep(t) /\ UNCHANGED parseVars
  \/ \E t \in Threads : Unlock(t) /\ UNCHANGED parseVars
  \/ \E t \in Threads, more \in BOOLEAN : ForEachStep(t, more) /\ UNCHANGED parseVars
  \/ \E t \in Threads : ForEachFatal(t) /\ UNCHANGED parseVars

SpecThreads == InitThreaded /\ [][NextThreads]_vars

\* SpecParse: LoadFromFile called on a file system

InitParse ==
  /\ NoDocs
  /\ InitThreads
  /\ fs \in FileSystems
  /\ loaded = <<>>
  /\ result = NotCalled
  /\ saved = NilCfg

NextParse ==
  \E path \in TopPaths : LoadFromFileOp(path) /\ UNCHANGED <<docVars, threadVars>>

SpecParse == InitParse /\ [][NextParse]_vars

(***************************************************************************)
(* Claims about the document's operations                                  *)
(***************************************************************************)

\* section -> key -> value of a document's content
ValueMap(content) ==
  [s \in DOMAIN content |-> [k \in DOMAIN content[s] |-> content[s][k].value]]

\* C1: every section name and every key stored in a document's section map is
\* lower-cased, whatever letter case the caller passed in.
C1_StoredLowerCased ==
  \A d \in 1..Len(docs) :
    \A s \in DOMAIN docs[d].values :
      /\ s = ToLower(s)
      /\ \A k \in DOMAIN heap[docs[d].values[s]] : k = ToLower(k)

\* a call of Merge with two documents has just returned
MergedTwo(l) == l.op = "Merge" /\ l.d # 0 /\ l.d2 # 0

\* C3: Merge(a, b) with both non-nil leaves the section -> key -> value mapping
\* of a and of b as it was before the call.
C3_MergeLeavesInputs ==
  [][(MergedTwo(last') /\ nops' = nops + 1) =>
       /\ ValueMap(Content(heap', docs'[last'.d])) = ValueMap(Content(heap, docs[last'.d]))
       /\ ValueMap(Content(heap', docs'[last'.d2])) = ValueMap(Content(heap, docs[last'.d2]))
    ]_vars

\* the union of two contents, the second winning on a (section, key) of both
UnionContent(A, B) ==
  [s \in DOMAIN A \cup DOMAIN B |->
     [k \in (IF s \in DOMAIN A THEN DOMAIN A[s] ELSE {})
              \cup (IF s \in DOMAIN B THEN DOMAIN B[s] ELSE {}) |->
        IF s \in DOMAIN B /\ k \in DOMAIN B[s] THEN B[s][k] ELSE A[s][k]]]

\* C4: the result c of Merge(a, b), both non-nil, holds exactly the union of the
\* sections and keys a and b held when Merge was called, with b's value for every
\* (section, key) b defines and a's value otherwise.
C4_MergeIsUnion ==
  [][(MergedTwo(last') /\ nops' = nops + 1) =>
       ValueMap(Content(heap', docs'[last'.ret]))
         = UnionContent(ValueMap(Content(heap, docs[last'.d])),
                        ValueMap(Content(heap, docs[last'.d2])))
    ]_vars

\* C4's case: Merge has returned a document with a section that both inputs
\* hold, in which b has a key and the result also has a key b does not have.
C4_Witness ==
  /\ MergedTwo(last)
  /\ last.d # last.d2
  /\ \E s \in DOMAIN docs[last.d].values \cap DOMAIN docs[last.d2].values :
       /\ DOMAIN heap[docs[last.d2].values[s]] # {}
       /\ DOMAIN heap[docs[last.ret].values[s]] \ DOMAIN heap[docs[last.d2].values[s]] # {}

\* the compound key that names key in section (the bare key when section is empty)
Compound(section, key) ==
  IF TrimSpace(section) = <<>> THEN TrimSpace(key)
  ELSE TrimSpace(section) \o <<":",":">> \o TrimSpace(key)

\* C9: after AddEntry(section, key, value) with a value that is no environment
\* expression, GetString of 'section::key' returns the trimmed value for every
\* letter-casing of section and key in the call and in the lookup.
C9_ReadAfterAddEntry ==
  (/\ last.op = "AddEntry"
   /\ ~isValueEnv(TrimSpace(last.value))
   /\ ~Contains(last.key, <<":",":">>)) =>
     \A lookup \in {Compound(last.section, last.key),
                    ToLower(Compound(last.section, last.key))} :
       getData(environ, heap, docs[last.d], lookup) = TrimSpace(last.value)

\* C10: a compound key is split at the first '::' only, so Set('a::b::c', v)
\* writes key 'b::c' of section 'a' and leaves GetString('a::b') as it was.
C10_SplitAtFirstOnly ==
  [][(/\ last'.op = "Set"
      /\ nops' = nops + 1
      /\ Len(Split(ToLower(last'.key), <<":",":">>)) > 2) =>
       LET parts == Split(ToLower(last'.key), <<":",":">>)
           two   == parts[1] \o <<":",":">> \o parts[2]
           first == SplitN2(ToLower(last'.key), <<":",":">>)
       IN  /\ getData(environ', heap', docs'[last'.d], two)
                = getData(environ, heap, docs[last'.d], two)
           /\ first[1] \in DOMAIN docs'[last'.d].values
           /\ first[2] \in DOMAIN heap'[docs'[last'.d].values[first[1]]]
    ]_vars

(***************************************************************************)
(* Claims about the parser                                                 *)
(***************************************************************************)

\* the lines of the file LoadFromFile was called with
LoadedLines == IF Readable(fs, loaded) THEN fs[loaded].data ELSE <<>>

\* the file system with line i of the file path taken out
WithoutLine(fsys, path, i) ==
  [fsys EXCEPT ![path].data = SubSeq(@, 1, i - 1) \o SubSeq(@, i + 1, Len(@))]

\* the file system with line i of the file path made an empty line
WithBlankLine(fsys, path, i) == [fsys EXCEPT ![path].data[i] = <<>>]

\* line i of the loaded file is an include directive, and names a directory
DirIncludeLine(line) ==
  /\ IsInclude(line)
  /\ Exists(fs, IncludePath(line, Dir(loaded)))
  /\ IsDir(fs, IncludePath(line, Dir(loaded)))

\* C5: an include directive that names an existing directory does not make the
\* parse fail: LoadFromFile never returns the syntax error of such a line.
C5_DirIncludeDoesNotFail ==
  (loaded # <<>> /\ result.err.kind = "syntax" /\ result.err.path = loaded) =>
    ~DirIncludeLine(result.err.line)

\* the lines of the loaded file that are include directives whose path,
\* as parseData resolves it, does not exist
MissingIncludes ==
  {i \in 1..Len(LoadedLines) :
     /\ IsInclude(TrimSpace(LoadedLines[i]))
     /\ ~Exists(fs, IncludePath(TrimSpace(LoadedLines[i]), Dir(loaded)))}

\* C6 as stated: the result of the parse is the result of parsing the same file
\* with the include line of the missing path removed.
C6_MissingIncludeAsRemoved ==
  loaded # <<>> =>
    \A i \in MissingIncludes : result = LoadFromFile(WithoutLine(fs, loaded, i), loaded)

\* C6 as amended: an include directive whose path does not exist neither aborts
\* the parse nor changes the document, the section or the pending comment: the
\* result is the result of parsing the same file with that line made empty.
C6_MissingIncludeAsBlank ==
  loaded # <<>> =>
    \A i \in MissingIncludes : result = LoadFromFile(WithBlankLine(fs, loaded, i), loaded)

\* C6's case: a file with an include of a missing path before its last line has
\* been parsed into a document with entries
C6_Witness ==
  /\ loaded # <<>>
  /\ result.err = NoErr /\ ~result.fatal
  /\ \E i \in MissingIncludes : i < Len(LoadedLines)
  /\ result.cfg.values # EmptyMap

\* the keys of a document, of whatever section
KeysOf(cfg) == UNION {DOMAIN cfg.values[s] : s \in DOMAIN cfg.values}

\* the line, as typed, is an include directive: no '=', the prefix 'include '
\* and one path
TypedInclude(line) ==
  /\ ~Contains(line, <<"=">>)
  /\ HasPrefix(line, <<"i","n","c","l","u","d","e"," ">>)
  /\ Len(Fields(line)) = 2

\* the path of the include directive as typed
TypedPath(line, dir) ==
  LET otherFile == Trim(Fields(line)[2], {"\""})
  IN  IF IsAbs(otherFile) THEN otherFile ELSE Join(dir, otherFile)

\* C7: include directives are taken as typed: the file loaded is the path as
\* typed, letter case kept, and a line that begins with 'Include' is no include
\* directive but a syntax error.
C7_IncludeAsTyped ==
  (loaded # <<>> /\ ~result.fatal) =>
    \A i \in 1..Len(LoadedLines) :
      LET line == TrimSpace(LoadedLines[i])
      IN  /\ (/\ result.err = NoErr
              /\ TypedInclude(line)
              /\ Readable(fs, TypedPath(line, Dir(loaded)))
              /\ LoadFromFile(fs, TypedPath(line, Dir(loaded))).err = NoErr
              /\ ~LoadFromFile(fs, TypedPath(line, Dir(loaded))).fatal) =>
               KeysOf(LoadFromFile(fs, TypedPath(line, Dir(loaded))).cfg)
                 \subseteq KeysOf(result.cfg)
          /\ (/\ ~Contains(line, <<"=">>)
              /\ HasPrefix(line, <<"I","n","c","l","u","d","e"," ">>)) =>
               result.err.kind = "syntax"

\* the lines of the loaded file that include a file whose parse returns an error
FailingIncludes ==
  {i \in 1..Len(LoadedLines) :
     LET line == TrimSpace(LoadedLines[i])
     IN  /\ IsInclude(line)
         /\ Exists(fs, IncludePath(line, Dir(loaded)))
         /\ ~IsDir(fs, IncludePath(line, Dir(loaded)))
         /\ LoadFromFile(fs, IncludePath(line, Dir(loaded))).err # NoErr}

Reading(t) == tpc[t] \in {"read", "range"}

\* the thread is in a mutator, between Lock and Unlock, at its write
InCriticalSection(t) == tpc[t] = "write"

\* C2: no accessor reads the section map while a mutator is inside its critical
\* section on the same document.
C2_NoReadDuringWrite ==
  \A r \in Threads, w \in Threads : ~(Reading(r) /\ InCriticalSection(w))

(***************************************************************************)
(* Claims about sections                                                   *)
(***************************************************************************)

\* the name a section argument stands for: trimmed, the default section when
\* empty, letter case folded
SectionNamed(section) == ToLower(SectionOrDefault(section))

\* document d of ds has a section of the name s
SectionExists(ds, d, s) == \E t \in DOMAIN ds[d].values : ToLower(t) = s

\* the section a call adds, writes a key into, or deletes
TargetSection(call) ==
  IF call.op = "Set" THEN SectionKey(call.key).section ELSE SectionNamed(call.section)

\* C12: DeleteSection(s) returns true exactly when section s exists, where s
\* comes into existence at AddSection(s) or at a key write into s (AddEntry,
\* Set) and stays in existence until DeleteSection(s): every call leaves the
\* existence of every other section as it was, DeleteKey that of all.
C12_DeleteSectionIffExists ==
  [][LET call == last'
         s    == TargetSection(call)
     IN  call.op \in {"AddSection", "AddEntry", "Set", "DeleteKey", "DeleteSection"} =>
           /\ call.op \in {"AddSection", "AddEntry", "Set"} =>
                SectionExists(docs', call.d, s)
           /\ call.op = "DeleteSection" =>
                /\ call.ret = SectionExists(docs, call.d, s)
                /\ ~SectionExists(docs', call.d, s)
           /\ \A t \in {ToLower(x) : x \in DOMAIN docs[call.d].values
                                         \cup DOMAIN docs'[call.d].values} :
                (call.op = "DeleteKey" \/ t # s) =>
                  SectionExists(docs', call.d, t) = SectionExists(docs, call.d, t)
    ]_vars

(***************************************************************************)
(* ParseValueEnv called on a value: specification SpecEnv                  *)
(***************************************************************************)

\* the environments: H set, H set and empty, nothing set, H and G set
EnvChoices ==
  {[n \in {<<"H">>} |-> <<"h">>],
   [n \in {<<"H">>} |-> <<>>],
   EmptyMap,
   [n \in {<<"H">>, <<"G">>} |-> IF n = <<"H">> THEN <<"h">> ELSE <<"g">>]}

EnvNames == {<<"H">>, <<"G">>, <<>>}

EnvDefaults == {<<>>, <<"x">>, <<"x","|","|","y">>}

\* the values ParseValueEnv is called on: expressions, whole and broken
EnvValues ==
  {open \o name \o bar \o def \o close :
     open \in {<<"$","{">>, <<"$">>, <<"\"","$","{">>},
     name \in EnvNames,
     bar \in {<<>>, <<"|","|">>, <<"|">>},
     def \in EnvDefaults,
     close \in {<<"}">>, <<>>, <<"}","\"">>}}

\* ParseValueEnv(value) is called and returns
ParseValueEnvOp(value) ==
  /\ last' = Call("ParseValueEnv", 0, 0, <<>>, <<>>, value, ParseValueEnv(environ, value))
  /\ nops' = nops + 1
  /\ UNCHANGED <<environ, heap, docs>>

InitEnv ==
  /\ environ \in EnvChoices
  /\ heap = <<>>
  /\ docs = <<>>
  /\ last = NoCall
  /\ nops = 0
  /\ InitThreads
  /\ NoParse

NextEnv ==
  \E value \in EnvValues :
    nops < MaxOps /\ ParseValueEnvOp(value) /\ UNCHANGED <<threadVars, parseVars>>

SpecEnv == InitEnv /\ [][NextEnv]_vars

\* the string, its double quotes at both ends apart, begins with ${ and ends with }
EnvExpression(value) ==
  \E i \in 1..Len(value), j \in 1..Len(value) :
    /\ \A x \in 1..(i - 1) : value[x] = "\""
    /\ \A x \in (j + 1)..Len(value) : value[x] = "\""
    /\ i + 1 < j
    /\ value[i] = "$" /\ value[i + 1] = "{" /\ value[j] = "}"

\* C13: in every environment ParseValueEnv returns, on ${NAME||default}, NAME and
\* the value of NAME when it is set and not empty, the default otherwise; on
\* ${NAME} with NAME not set, NAME and the empty string; on a string that is no
\* environment expression, an empty envKey and the string unchanged.
C13_ParseValueEnv ==
  last.op = "ParseValueEnv" =>
    /\ \A name \in EnvNames, def \in EnvDefaults :
         last.value = <<"$","{">> \o name \o <<"|","|">> \o def \o <<"}">> =>
           last.ret = <<name, IF name \in DOMAIN environ /\ environ[name] # <<>>
                              THEN environ[name] ELSE def>>
    /\ \A name \in EnvNames :
         (last.value = <<"$","{">> \o name \o <<"}">> /\ name \notin DOMAIN environ) =>
           last.ret = <<name, <<>>>>
    /\ ~EnvExpression(last.value) => last.ret = <<<<>>, last.value>>

\* C13's case: ${H||x} has been resolved with H set and empty
C13_Witness ==
  /\ last.op = "ParseValueEnv"
  /\ last.value = <<"$","{","H","|","|","x","}">>
  /\ <<"H">> \in DOMAIN environ /\ environ[<<"H">>] = <<>>
  /\ last.ret = <<<<"H">>, <<"x">>>>

(***************************************************************************)
(* ForEach on a document no one writes: specification SpecForEach          *)
(***************************************************************************)

MaxSections == 3

\* the name of the i-th section of the document: default, s, ss, ...
SectionName(i) == IF i = 1 THEN DefaultSection ELSE [j \in 1..(i - 1) |-> "s"]

\* a document of n sections of one entry each
InitForEach ==
  /\ environ \in EnvStates
  /\ \E n \in 0..MaxSections :
       /\ heap = [i \in 1..n |->
                    (<<"k">> :> NewEntry(SectionName(i), <<"k">>, <<"1">>, <<>>, <<>>))]
       /\ docs = <<[values |-> [s \in {SectionName(i) : i \in 1..n} |->
                                  CHOOSE i \in 1..n : SectionName(i) = s]]>>
  /\ last = NoCall
  /\ nops = 0
  /\ InitThreads
  /\ NoParse

NextForEach ==
  \/ CallStart(1, Call("ForEach", 1, 0, <<>>, <<>>, <<>>, <<>>)) /\ UNCHANGED parseVars
  \/ \E more \in BOOLEAN : ForEachStep(1, more) /\ UNCHANGED parseVars

SpecForEach == InitForEach /\ [][NextForEach]_vars

\* thread t, in ForEach, calls the visitor in this step
Visits(t) == tpc[t] = "range" /\ tvis'[t] # tvis[t]

\* thread t returns from ForEach in this step
Returns(t) == tpc[t] = "range" /\ tpc'[t] = "idle"

\* C14: ForEach on a document that is not written calls the visitor with a
\* section of the document it has not called it with before, and with that
\* section's entries; it returns at once when the visitor answers false, and
\* otherwise only when it has called the visitor for every section.
C14_ForEachOncePerSection ==
  [][\A t \in Threads :
       docs[1].values = tsnap[t] =>
         /\ Visits(t) =>
              /\ last'.section \in DOMAIN docs[1].values
              /\ last'.section \notin tvis[t]
              /\ tvis'[t] = tvis[t] \cup {last'.section}
              /\ last'.ret = FALSE => Returns(t)
         /\ (Returns(t) /\ ~Visits(t)) => tvis[t] = DOMAIN docs[1].values
    ]_vars

\* C14's case: ForEach has returned from a document of several sections after
\* it has called the visitor for each
C14_Witness ==
  /\ last.op = "ForEach" /\ last.section = <<>>
  /\ tpc[1] = "idle"
  /\ Cardinality(DOMAIN docs[1].values) >= 2
  /\ tvis[1] = DOMAIN docs[1].values

(***************************************************************************)
(* LoadFromFile on files of key-value, comment, header and include lines:  *)
(* specification SpecText.                                                 *)
(*   /d/main          the file loaded, of at most MaxTextLines lines       *)
(*   /d/inc.conf      a file it may include, in one of TextIncVariants     *)
(***************************************************************************)

MaxTextLines == 3

\* q="a"b"
LineQuoted == <<"q","=","\"","a","\"","b","\"">>

\* r=a"
LineQuoteEnd == <<"r","=","a","\"">>

TextLib ==
  {LineKv, LineKvUpper, LineSection, LineComment, LineBlank, LineIncFile,
   LineQuoted, LineQuoteEnd}

TextIncVariants ==
  {FileNode(<<<<";"," ","d">>, <<"k","=","9">>, <<"[","T","o","p","]">>, <<"p","=","2">>>>),
   FileNode(<<<<"j","=","5">>, <<"o","o","p","s">>>>)}

\* the sequences of at most n lines of TextLib
TextLinesUpTo(n) == UNION {[1..m -> TextLib] : m \in 0..n}

TextFileSystem(main, inc) ==
  (pD :> DirNode) @@ (pMain :> FileNode(main)) @@ (pInc :> inc)

TextFileSystems ==
  {TextFileSystem(main, inc) : main \in TextLinesUpTo(MaxTextLines), inc \in TextIncVariants}

InitText ==
  /\ NoDocs
  /\ InitThreads
  /\ fs \in TextFileSystems
  /\ loaded = <<>>
  /\ result = NotCalled
  /\ saved = NilCfg

NextText ==
  \E path \in {pMain, pInc} : LoadFromFileOp(path) /\ UNCHANGED <<docVars, threadVars>>

SpecText == InitText /\ [][NextText]_vars

(***************************************************************************)
(* A file read as the specification reads it: line by line, the last       *)
(* definition of a section and key winning, an include line defining the   *)
(* keys of the document included.                                          *)
(***************************************************************************)

IsCommentLine(line) == HasPrefix(line, <<"#">>) \/ HasPrefix(line, <<";">>)

IsHeaderLine(line) == HasPrefix(line, <<"[">>) /\ HasSuffix(line, <<"]">>)

\* a key = value line
IsKvLine(line) ==
  /\ line # <<>> /\ ~IsCommentLine(line) /\ ~IsHeaderLine(line) /\ ~IsInclude(line)
  /\ Contains(line, <<"=">>)

HeaderName(line) == ToLower(SubSeq(line, 2, Len(line) - 1))

KvKey(line) == ToLower(TrimSpace(SplitN2(line, <<"=">>)[1]))

KvRaw(line) == TrimSpace(SplitN2(line, <<"=">>)[2])

RECURSIVE JoinLines(_)
\* the lines joined by newlines
JoinLines(lines) ==
  IF lines = <<>> THEN <<>>
  ELSE IF Len(lines) = 1 THEN lines[1]
  ELSE lines[1] \o <<"\n">> \o JoinLines(Tail(lines))

\* the definitions an included document makes: one for each of its keys
IncludedDefs(cfg) ==
  [p \in PairsOf(cfg) |->
     [value |-> cfg.values[p[1]][p[2]].value, raw |-> cfg.values[p[1]][p[2]].value,
      comment |-> cfg.values[p[1]][p[2]].comment, line |-> 0]]

\* line i of the file path read in the state r: the section, the comment lines
\* pending, the last definition of each section and key, the section comments
ReadLineAsSpecified(fsys, path, i, r) ==
  LET line == TrimSpace(fsys[path].data[i])
  IN  IF line = <<>> THEN r
      ELSE IF IsCommentLine(line) THEN [r EXCEPT !.pending = Append(@, line)]
      ELSE IF IsHeaderLine(line)
      THEN [r EXCEPT !.section = HeaderName(line),
                     !.sectionComment = MapPut(@, HeaderName(line), JoinLines(r.pending)),
                     !.pending = <<>>]
      ELSE IF IsInclude(line)
      THEN LET child == parseFile(fsys, IncludePath(line, Dir(path)), r.section, {})
           IN  IF child.err = NoErr /\ ~child.fatal
               THEN [r EXCEPT !.defs =
                       [p \in DOMAIN r.defs \cup PairsOf(child.cfg) |->
                          IF p \in PairsOf(child.cfg)
                          THEN IncludedDefs(child.cfg)[p] ELSE r.defs[p]]]
               ELSE r
      ELSE IF IsKvLine(line)
      THEN [r EXCEPT !.defs = MapPut(@, <<r.section, KvKey(line)>>,
                                [value |-> ValueOf(KvRaw(line)), raw |-> KvRaw(line),
                                 comment |-> JoinLines(r.pending), line |-> i]),
                     !.pending = <<>>]
      ELSE r

RECURSIVE ReadLinesAsSpecified(_, _, _, _)
ReadLinesAsSpecified(fsys, path, i, r) ==
  IF i > Len(fsys[path].data) THEN r
  ELSE ReadLinesAsSpecified(fsys, path, i + 1, ReadLineAsSpecified(fsys, path, i, r))

ReadAsSpecified(fsys, path) ==
  ReadLinesAsSpecified(fsys, path, 1,
    [section |-> DefaultSection, pending |-> <<>>, defs |-> EmptyMap,
     sectionComment |-> EmptyMap])

\* LoadFromFile has returned a document
Parsed == loaded # <<>> /\ result.err = NoErr /\ ~result.fatal

\* the entry of the pair p = <<section, key>> in the document returned
ResultEntry(p) == result.cfg.values[p[1]][p[2]]

\* C11: the value stored for a key = value line whose trimmed value begins with
\* a double quote is that value with every double quote removed, those inside
\* it too; any other value is stored as trimmed.
C11_AllQuotesRemoved ==
  Parsed =>
    LET r == ReadAsSpecified(fs, loaded)
    IN  \A p \in DOMAIN r.defs \cap PairsOf(result.cfg) :
          r.defs[p].line # 0 =>
            ResultEntry(p).value =
              IF HasPrefix(r.defs[p].raw, <<"\"">>)
              THEN SelectSeq(r.defs[p].raw, LAMBDA c : c # "\"")
              ELSE r.defs[p].raw

\* C15: after a successful parse the value of each section and key is the value
\* of its last definition in document order, an include line defining, at its
\* place, all keys of the document included.
C15_LastDefinitionWins ==
  Parsed =>
    LET r == ReadAsSpecified(fs, loaded)
    IN  /\ PairsOf(result.cfg) = DOMAIN r.defs
        /\ \A p \in DOMAIN r.defs : ResultEntry(p).value = r.defs[p].value

\* C15's case: k is defined, then by an included file, then once more: the
\* last definition is the one stored
C15_Witness ==
  /\ Parsed /\ loaded = pMain
  /\ fs[pMain].data = <<LineKv, LineIncFile, LineKvUpper>>
  /\ LoadFromFile(fs, pInc).err = NoErr
  /\ ResultEntry(<<DefaultSection, <<"k">>>>).value = <<"2">>

\* C16: the comment of each header and of each key-value entry is the comment
\* lines read since the header or key-value line before it, joined by newlines;
\* blank lines and include lines neither clear nor take them; the comment lines
\* pending at the end of input are the document's trailing comment.
C16_CommentBuffer ==
  Parsed =>
    LET r == ReadAsSpecified(fs, loaded)
    IN  /\ \A p \in DOMAIN r.defs \cap PairsOf(result.cfg) :
             r.defs[p].line # 0 => ResultEntry(p).comment = r.defs[p].comment
        /\ result.cfg.sectionComment = r.sectionComment
        /\ result.cfg.endComment = JoinLines(r.pending)

\* C16's case: a comment line, an include line and a key-value line: the entry
\* has the comment
C16_Witness ==
  /\ Parsed /\ loaded = pMain
  /\ fs[pMain].data = <<LineComment, LineIncFile, LineKv>>
  /\ LoadFromFile(fs, pInc).err = NoErr
  /\ ResultEntry(<<DefaultSection, <<"k">>>>).comment = LineComment

\* the section current at line i of lines, the file having begun in initial
SectionAt(lines, i, initial) ==
  LET hs == {h \in 1..(i - 1) : IsHeaderLine(TrimSpace(lines[h]))}
  IN  IF hs = {} THEN initial ELSE HeaderName(TrimSpace(lines[SetMax(hs)]))

\* the key of section is in the document returned
Stored(section, key) ==
  section \in DOMAIN result.cfg.values /\ key \in DOMAIN result.cfg.values[section]

\* the lines of the loaded file that include a file whose parse succeeds
FileIncludes ==
  {i \in 1..Len(LoadedLines) :
     LET line == TrimSpace(LoadedLines[i])
     IN  /\ IsInclude(line)
         /\ Readable(fs, IncludePath(line, Dir(loaded)))
         /\ LoadFromFile(fs, IncludePath(line, Dir(loaded))).err = NoErr
         /\ ~LoadFromFile(fs, IncludePath(line, Dir(loaded))).fatal}

\* C17: a file include starts the included file in the section current at the
\* include line and leaves that section current: the keys the included file
\* has before a header of its own, and the keys of the parent's lines after
\* the include line and before its next header, are stored under that section.
C17_IncludeKeepsSection ==
  Parsed =>
    \A i \in FileIncludes :
      LET section == SectionAt(LoadedLines, i, DefaultSection)
          child   == fs[IncludePath(TrimSpace(LoadedLines[i]), Dir(loaded))].data
      IN  /\ \A j \in 1..Len(child) :
               (/\ IsKvLine(TrimSpace(child[j]))
                /\ \A h \in 1..(j - 1) : ~IsHeaderLine(TrimSpace(child[h]))) =>
                 Stored(section, KvKey(TrimSpace(child[j])))
          /\ \A j \in (i + 1)..Len(LoadedLines) :
               (/\ IsKvLine(TrimSpace(LoadedLines[j]))
                /\ \A h \in (i + 1)..(j - 1) : ~IsHeaderLine(TrimSpace(LoadedLines[h]))) =>
                 Stored(section, KvKey(TrimSpace(LoadedLines[j])))

\* C17's case: under the header [Web] a file with a header of its own is
\* included, and a key-value line follows
C17_Witness ==
  /\ Parsed /\ loaded = pMain
  /\ fs[pMain].data = <<LineSection, LineIncFile, LineQuoteEnd>>
  /\ FileIncludes = {2}
  /\ Stored(<<"w","e","b">>, <<"k">>)
  /\ Stored(<<"t","o","p">>, <<"p">>)
  /\ Stored(<<"w","e","b">>, <<"r">>)

(***************************************************************************)
(* Claims about the end of parsing                                         *)
(***************************************************************************)

\* the paths of fsys below the directory d
Under(fsys, d) == {p \in DOMAIN fsys : HasPrefix(p, d \o <<"/">>)}

\* the paths the include lines of the file f name, as typed and as parseData
\* resolves them; for a directory, the paths below it
IncludeTargets(fsys, f) ==
  IF fsys[f].dir THEN Under(fsys, f)
  ELSE DOMAIN fsys \cap
         UNION {LET line == TrimSpace(fsys[f].data[i])
                IN  (IF IsInclude(line) THEN {IncludePath(line, Dir(f))} ELSE {})
                      \cup (IF TypedInclude(line) THEN {TypedPath(line, Dir(f))} ELSE {})
                : i \in 1..Len(fsys[f].data)}

RECURSIVE Reach(_, _, _)
\* the paths reached from those of frontier, seen being reached already
Reach(fsys, frontier, seen) ==
  IF frontier \subseteq seen THEN seen
  ELSE Reach(fsys, UNION {IncludeTargets(fsys, f) : f \in frontier}, seen \cup frontier)

\* some file reaches itself by the paths named on include lines
IncludeCycle(fsys) ==
  \E f \in DOMAIN fsys : f \in Reach(fsys, IncludeTargets(fsys, f), {})

\* C18: when no file reaches itself by following the paths named on include
\* lines, LoadFromFile returns: the parse does not go on without end.
C18_TerminatesWithoutCycle ==
  (loaded # <<>> /\ ~IncludeCycle(fs)) => ~result.fatal

(***************************************************************************)
(* A document parsed, saved and parsed again: specification SpecSave.      *)
(*   /d/main          the file loaded, of at most MaxSaveLines lines       *)
(*   /d/out           the file SaveFile writes                             *)
(***************************************************************************)

MaxSaveLines == 2

pOut == pD \o <<"/","o","u","t">>

SaveFileSystems ==
  {TextFileSystem(main, inc) : main \in TextLinesUpTo(MaxSaveLines), inc \in TextIncVariants}

InitSave ==
  /\ NoDocs
  /\ InitThreads
  /\ fs \in SaveFileSystems
  /\ loaded = <<>>
  /\ result = NotCalled
  /\ saved = NilCfg

NextSave ==
  \/ \E path \in {pMain, pOut} : LoadFromFileOp(path) /\ UNCHANGED <<docVars, threadVars>>
  \/ \E sections \in Orders(DOMAIN result.cfg.values), pairs \in Orders(PairsOf(result.cfg)) :
       SaveFileOp(pOut, sections, pairs) /\ UNCHANGED <<docVars, threadVars>>

SpecSave == InitSave /\ [][NextSave]_vars

\* section -> key -> raw value of a document
RawValues(cfg) ==
  [s \in DOMAIN cfg.values |-> [k \in DOMAIN cfg.values[s] |-> cfg.values[s][k].value]]

\* C19: for a document d parsed from input with at least one key-value entry,
\* parsing String(d) succeeds and yields the section -> key -> raw value
\* mapping of d, in whatever order String has written sections and keys.
C19_RoundTrip ==
  (loaded = pOut /\ PairsOf(saved) # {}) =>
    /\ result.err = NoErr /\ ~result.fatal
    /\ RawValues(result.cfg) = RawValues(saved)

====
